---- MODULE Spec2Model ----
(***************************************************************************)
(* A model of src/train_contour.py: the Count Estimator (get_count), the   *)
(* Boundary Search and Feature Builder (brute_force_bounds), the Dataset   *)
(* Assembler (read_data_frame, precompute_stats) and the part of get_model *)
(* that removes the held-out test rows before fitting.                     *)
(*                                                                         *)
(* Conventions.                                                            *)
(*  - A component-statistics table (the third result of                    *)
(*    cv2.connectedComponentsWithStats) is modelled by its CC_STAT_AREA    *)
(*    column: a sequence of areas whose first entry is row 0, the          *)
(*    background.  No code under src/ reads the other four columns.        *)
(*  - The relative error and the histogram shares are kept as fractions   *)
(*    [num, den]; den = 0 stands for the IEEE results of a division by     *)
(*    zero, NaN (0/0) and inf (x/0).  The mean and the quotients of        *)
(*    get_count are float64 values, rounded as IEEE rounds them.           *)
(*  - A Python local that is not yet bound, or None, is the empty          *)
(*    sequence; a bound value v is <<v>>.                                  *)
(*  - bounds and bests hold the entries written so far; the placeholders   *)
(*    (1, 1) and 1 of the images not yet processed (lines 99-100) are not  *)
(*    kept.  drop_columns only removes index columns and is left out.      *)
(***************************************************************************)
EXTENDS Integers, Sequences, FiniteSets, TLC

(***************************************************************************)
(* Bounds of the model.                                                    *)
(***************************************************************************)
\* rows of the labelled table read by read_data_frame
MaxRows == 2
\* components of an Area Vector passed to a direct get_count call
MaxLen == 2

(***************************************************************************)
(* Program constants.                                                      *)
(***************************************************************************)
\* l = 30 (line 104)
SearchL == 30
\* range(l + 10, 1000, 10) (line 107): first candidate is l + GridStep
GridStep == 10
GridStop == 1000
\* min_error = 100000 (line 103)
InitMinError == 100000
\* explicit mantissa bits of the float64 that np.mean returns (line 52)
MantissaBits == 52
\* get_count(..., l=0, r=1000, res=True) (line 124)
WideL == 0
WideR == 1000
\* p[p.CC_STAT_AREA < 1000] (line 138)
AreaCutoff == 1000
\* bins=np.arange(0, 1000, 10) (line 139)
BinStart == 0
BinStop == 1000
BinWidth == 10

\* drop_images (line 170)
drop_images == {104, 908, 906, 907, 905, 904} \cup (905..999)
\* test_ids (line 182)
test_ids == {776, 675, 42, 3, 714, 312, 127, 653, 592, 205, 179, 191}

(***************************************************************************)
(* Input domains.                                                          *)
(***************************************************************************)
\* identifiers that occur in the table: a held-out one, a dropped one, and
\* one that is neither
ImageIds == {3, 104, 7}
\* prop_count values that occur in the table (a missing one is isna)
Labels == {0, 1, 5}
\* what get_stats yields for the images on disk: area columns, row 0 first
StatsPool ==
    { <<5000, 50, 55, 52, 300>>,
      <<5000>>,
      <<500, 35, 995>>,
      <<5000, 2000>>,
      <<5000, 995>>,
      <<5000, 31, 3100031>>,
      <<5000, 45, 45, 90, 20>>,
      <<5000, 33, 33, 34, 250>> }
\* areas and windows of the direct get_count calls
AreaVals == {20, 35, 52, 300, 2000}
\* Area Vectors whose window (30, 40] has a mean that is no float64 and an
\* area at an exact half-integer multiple of it
TieVectors == {<<33, 33, 34, 250>>, <<32, 33, 33, 931>>}
WindowEdges == {0, 30, 40, 60, 1000}

VARIABLES
    pc,        \* position in get_model, or in a direct call of get_count
    csv,       \* the table pd.read_csv yields: rows [ImageId, prop_count, isna]
    df,        \* df_augmented: the rows read_data_frame keeps
    disk,      \* ImageId -> the statistics get_stats(read_im(id)) yields
    images,    \* precompute_stats: the Area Vector of every row of df
    labels,    \* precompute_stats: prop_count of every row of df
    imageids,  \* ImageId of every row of df
    id_,       \* brute_force_bounds: number of images processed so far
    best_r,    \* brute_force_bounds: the local best_r (<<>> while unbound)
    bounds,    \* brute_force_bounds: bounds[i] for the processed images
    bests,     \* brute_force_bounds: bests[i] for the processed images
    train_x,   \* brute_force_bounds: feature rows appended so far
    train_y,   \* brute_force_bounds: (l, best_r) rows appended so far
    err,       \* the exception that ended the run ("" when none)
    x_train,   \* get_model: x_train_aug, the rows handed to fit
    y_train,   \* get_model: y_train_aug
    call,      \* a direct call get_count(im, l, r, res=False): its arguments
    ret        \* its outcome (<<>> before the call)

vars == <<pc, csv, df, disk, images, labels, imageids, id_, best_r, bounds,
          bests, train_x, train_y, err, x_train, y_train, call, ret>>

pipeline_vars == <<csv, df, disk, images, labels, imageids, id_, best_r,
                   bounds, bests, train_x, train_y, err, x_train, y_train>>

(***************************************************************************)
(* Helpers: numpy reductions and float arithmetic on fractions.            *)
(***************************************************************************)
RECURSIVE SumSeq(_)
SumSeq(s) == IF s = <<>> THEN 0 ELSE Head(s) + SumSeq(Tail(s))

Abs(x) == IF x < 0 THEN -x ELSE x

\* largest e >= 0 with 2^e * den <= num, for num >= den > 0: the binary
\* exponent of the float nearest num / den
RECURSIVE Exponent(_, _)
Exponent(num, den) ==
    IF 2 * den <= num THEN 1 + Exponent(num, 2 * den) ELSE 0

RECURSIVE Pow2(_)
Pow2(e) == IF e = 0 THEN 1 ELSE 2 * Pow2(e - 1)

\* h * h mod n
SquareMod(h, n) == (h * h) % n

\* 2^k mod n, by repeated squaring
RECURSIVE PowMod2(_, _)
PowMod2(k, n) ==
    IF k = 0 THEN 1 % n
    ELSE IF k % 2 = 0 THEN SquareMod(PowMod2(k \div 2, n), n)
    ELSE (2 * SquareMod(PowMod2(k \div 2, n), n)) % n

\* np.mean (line 52) is the float64 nearest s / n.  With e the exponent of
\* s / n, the float is an integer multiple of 2^(e - 52); this is what
\* s * 2^(52 - e) leaves modulo n: the float lies below s / n by that many
\* n-ths of 2^(e - 52) when it is under n / 2, above s / n by the rest when
\* it is over, and is s / n itself when it is 0
MeanRemainder(s, n, e) == ((s % n) * PowMod2(MantissaBits - e, n)) % n

\* np.round of the float64 a / mean (line 53) when a * n / s is exactly
\* q + 1/2, given the exponents e of s / n and eh of q + 1/2 and the
\* remainder rem of the mean.  The float quotient is q + 1/2 itself, which
\* np.round takes to the even neighbour, unless the rounding of the mean
\* moves the quotient more than half a float spacing away from q + 1/2: then
\* it is the float just below q + 1/2 (mean rounded up) or just above it
\* (mean rounded down), and np.round gives q or q + 1.  The test compares
\* the move, dist / n * (q + 1/2) / (s / n) spacings of the mean, with half
\* a spacing at q + 1/2, both scaled to integers.
RoundMoved(q, s, n, e, eh, rem) ==
    LET up == 2 * rem > n
        dist == IF up THEN n - rem ELSE rem
        g == IF e < eh THEN e ELSE eh
        lhs == IF q = 0 THEN dist * Pow2(e + 1)
               ELSE dist * (2 * q + 1) * Pow2(e - g)
        rhs == IF q = 0 THEN s ELSE s * Pow2(eh - g)
        moved == lhs > rhs \/ (lhs = rhs /\ dist # 0 /\ ~up)
    IN  IF ~moved THEN (IF q % 2 = 0 THEN q ELSE q + 1)
        ELSE IF up THEN q ELSE q + 1

\* the exponents of the mean s / n and of q + 1/2, then RoundMoved
RoundTieAt(q, s, n, e) ==
    RoundMoved(q, s, n, e, IF q = 0 THEN 0 ELSE Exponent(q, 1),
               MeanRemainder(s, n, e))

RoundTie(q, s, n) == RoundTieAt(q, s, n, Exponent(s, n))

\* mutant of RoundedRatio: the quotient truncated, as int() would
RoundTruncated(a, s, n) == (a * n) \div s

\* np.round(a / np.mean(...)) (lines 52-53) for a selection of n > 0 areas
\* that sum to s > 0: the float64 a / fl(s / n), rounded half to even.  Both
\* float roundings are far smaller than the distance 1 / (2 s) of an exact
\* quotient from the nearest half-integer, so they matter only when the
\* exact quotient a * n / s is a half-integer
RoundedRatio(a, s, n) ==
    LET q == (a * n) \div s
        rem == (a * n) % s
    IN  IF 2 * rem < s THEN q
        ELSE IF 2 * rem > s THEN q + 1
        ELSE RoundTie(q, s, n)

\* a < b on floats given as fractions; any comparison with NaN or between
\* equal infinities is False, and x/0 with x > 0 is +inf
FloatLess(a, b) ==
    IF a.den = 0 \/ b.den = 0
    THEN a.den # 0 /\ b.den = 0 /\ b.num > 0
    ELSE LET an == IF a.den < 0 THEN -a.num ELSE a.num
             ad == Abs(a.den)
             bn == IF b.den < 0 THEN -b.num ELSE b.num
             bd == Abs(b.den)
         IN  an * bd < bn * ad

(***************************************************************************)
(* get_stats (lines 12-29): stats of the image, and stats[1:, AREA].       *)
(***************************************************************************)
get_stats(stats) == [stats |-> stats, label_area |-> Tail(stats)]

(***************************************************************************)
(* get_count (lines 32-54).  With res the argument is the image (here: its *)
(* statistics); without, it is the Area Vector.  np.mean of an empty       *)
(* selection is NaN; a / NaN is NaN; np.sum of an empty array is 0.0 and   *)
(* of an array holding a NaN is NaN; int(NaN) raises ValueError.           *)
(***************************************************************************)
get_count(im, l, r, res) ==
    LET stats == IF res THEN <<get_stats(im).stats>> ELSE <<>>
        label_area == IF res THEN get_stats(im).label_area ELSE im
        singular == SelectSeq(label_area, LAMBDA a : l < a /\ a <= r)
        circle_area == [num |-> SumSeq(singular), den |-> Len(singular)]
        ratios == [i \in 1..Len(label_area) |->
                     IF circle_area.den = 0 THEN 0
                     ELSE RoundedRatio(label_area[i], circle_area.num,
                                       circle_area.den)]
        sum_is_nan == circle_area.den = 0 /\ Len(label_area) > 0
    IN  IF sum_is_nan
        THEN [raised |-> "ValueError", found |-> 0, stats |-> stats]
        ELSE [raised |-> "", found |-> SumSeq(ratios), stats |-> stats]

(***************************************************************************)
(* brute_force_bounds, the grid scan of one image (lines 103-117).         *)
(* best_r is a local of the whole function: it is unbound before the first *)
(* image and keeps its value from one image to the next.                   *)
(***************************************************************************)
\* error = abs(found - true) / true (line 113), on numpy scalars: a zero
\* label gives inf or NaN, not an exception
RelError(found, true) == [num |-> Abs(found - true), den |-> true]

\* lines 108-111: a ValueError of get_count counts as found = 0
FoundOrZero(im, l, r) ==
    LET c == get_count(im, l, r, FALSE)
    IN  IF c.raised = "ValueError" THEN 0 ELSE c.found

\* mutant of Improves: min_error >= error, so that a tie moves best_r
ImprovesOrTies(min_error, error) == ~FloatLess(min_error, error)

\* line 114: if min_error > error
Improves(min_error, error) == FloatLess(error, min_error)

\* lines 108-117: the body of the loop for one candidate r, on the locals
\* min_error and best_r
ScanStep(acc, im, lab, l, r) ==
    LET error == RelError(FoundOrZero(im, l, r), lab)
    IN  IF Improves(acc.min_error, error)
        THEN [min_error |-> error, best_r |-> <<r>>]
        ELSE acc

\* line 107: range(l + 10, 1000, 10) has GridLen(l) candidates, the k-th
\* (from 0) being GridAt(l, k)
GridLen(l) ==
    IF GridStop <= l + GridStep THEN 0
    ELSE (GridStop - (l + GridStep) + GridStep - 1) \div GridStep

GridAt(l, k) == l + GridStep + k * GridStep

\* the loop of line 107 over the candidates lo..hi in increasing order.  The
\* range is run as two halves, the first before the second; the test on
\* the first half's best_r (unbound or one value, so always true) makes the
\* evaluator finish the first half before it enters the second, which keeps
\* the evaluation shallow
RECURSIVE ScanRange(_, _, _, _, _, _)
ScanRange(lo, hi, acc, im, lab, l) ==
    IF lo > hi THEN acc
    ELSE IF lo = hi THEN ScanStep(acc, im, lab, l, GridAt(l, lo))
    ELSE LET mid == (lo + hi) \div 2
             left == ScanRange(lo, mid, acc, im, lab, l)
         IN  IF Len(left.best_r) <= 1
             THEN ScanRange(mid + 1, hi, left, im, lab, l)
             ELSE left

\* lines 103-117: the scan of one image, entered with the function's best_r
ScanImage(im, lab, best_r_in) ==
    ScanRange(0, GridLen(SearchL) - 1,
              [min_error |-> [num |-> InitMinError, den |-> 1],
               best_r |-> best_r_in],
              im, lab, SearchL)

(***************************************************************************)
(* The Feature Builder inside brute_force_bounds (lines 127-143).          *)
(***************************************************************************)
\* np.arange(0, 1000, 10): the edges 0, 10, ..., 990
NumEdges == (BinStop - BinStart + BinWidth - 1) \div BinWidth
LastEdge == BinStart + (NumEdges - 1) * BinWidth
NumBins == NumEdges - 1

\* pd.cut(..., bins, include_lowest=True), right-closed bins: the bin of an
\* area (1..NumBins), or 0 when it falls in none (NaN)
CutBin(a) ==
    IF a < BinStart \/ a > LastEdge THEN 0
    ELSE IF a = BinStart THEN 1
    ELSE (a - BinStart + BinWidth - 1) \div BinWidth

\* out.value_counts(normalize=True, sort=False).to_list(): per bin, its
\* count over the number of binned values; 0/0 (NaN) when nothing is binned
BuildFeatures(stats) ==
    LET restricted == SelectSeq(stats, LAMBDA a : a < AreaCutoff)
        binned == SelectSeq(restricted, LAMBDA a : CutBin(a) # 0)
        total == Len(binned)
    IN  [k \in 1..NumBins |->
           [num |-> Len(SelectSeq(binned, LAMBDA a : CutBin(a) = k)),
            den |-> total]]

\* mutant of read_data_frame: the filter on drop_images (line 157) left out
read_data_frame_keeping_dropped(table, drop) ==
    SelectSeq(table, LAMBDA row : ~row.isna)

(***************************************************************************)
(* read_data_frame (lines 152-158): rows with a label, not in drop_images. *)
(***************************************************************************)
read_data_frame(table, drop) ==
    LET labelled == SelectSeq(table, LAMBDA row : ~row.isna)
    IN  SelectSeq(labelled, LAMBDA row : row.ImageId \notin drop)

\* np.in1d(ids, test).nonzero()[0] (line 183): positions of the test ids
TestIndices(ids, test) == {i \in 1..Len(ids) : ids[i] \in test}

\* np.delete(rows, indices, axis=0) (lines 186-187)
RECURSIVE DeleteFrom(_, _, _)
DeleteFrom(rows, indices, i) ==
    IF i > Len(rows) THEN <<>>
    ELSE (IF i \in indices THEN <<>> ELSE <<rows[i]>>)
         \o DeleteFrom(rows, indices, i + 1)

np_delete(rows, indices) == DeleteFrom(rows, indices, 1)

(***************************************************************************)
(* Initial states.                                                         *)
(***************************************************************************)
Rows == [ImageId : ImageIds, prop_count : Labels, isna : {FALSE}]
          \cup [ImageId : ImageIds, prop_count : {0}, isna : {TRUE}]

Tables == UNION {[1..n -> Rows] : n \in 0..MaxRows}

AreaVectors == UNION {[1..n -> AreaVals] : n \in 0..MaxLen} \cup TieVectors

Idle ==
    /\ csv = <<>> /\ df = <<>> /\ disk = <<>>
    /\ images = <<>> /\ labels = <<>> /\ imageids = <<>>
    /\ id_ = 0 /\ best_r = <<>> /\ bounds = <<>> /\ bests = <<>>
    /\ train_x = <<>> /\ train_y = <<>> /\ err = ""
    /\ x_train = <<>> /\ y_train = <<>>

\* get_model is entered with the table on disk
Init ==
    /\ pc = "read_data_frame"
    /\ csv \in Tables
    /\ df = <<>> /\ disk = <<>>
    /\ images = <<>> /\ labels = <<>> /\ imageids = <<>>
    /\ id_ = 0 /\ best_r = <<>> /\ bounds = <<>> /\ bests = <<>>
    /\ train_x = <<>> /\ train_y = <<>> /\ err = ""
    /\ x_train = <<>> /\ y_train = <<>>
    /\ call = <<>> /\ ret = <<>>

\* a direct call get_count(im, l, r, res=False) on an Area Vector
InitCount ==
    /\ pc = "get_count"
    /\ Idle
    /\ \E im \in AreaVectors, l \in WindowEdges, r \in WindowEdges :
          /\ l < r
          /\ call = <<[im |-> im, l |-> l, r |-> r]>>
    /\ ret = <<>>

(***************************************************************************)
(* Actions.                                                                *)
(***************************************************************************)
\* get_count(im, l, r, res=False), lines 45-54
GetCount ==
    /\ pc = "get_count"
    /\ pc' = "returned"
    /\ ret' = <<get_count(call[1].im, call[1].l, call[1].r, FALSE)>>
    /\ UNCHANGED <<call, pipeline_vars>>

\* get_model line 173
ReadDataFrame ==
    /\ pc = "read_data_frame"
    /\ df' = read_data_frame(csv, drop_images)
    /\ pc' = "precompute_stats"
    /\ UNCHANGED <<csv, disk, images, labels, imageids, id_, best_r, bounds,
                   bests, train_x, train_y, err, x_train, y_train, call, ret>>

\* precompute_stats, one iteration of the loop of lines 73-77; the image
\* behind an identifier is whatever is on disk, the same at every read
PrecomputeStep ==
    /\ pc = "precompute_stats"
    /\ Len(images) < Len(df)
    /\ LET im == df[Len(images) + 1].ImageId
       IN  \E stats \in StatsPool :
              /\ im \in DOMAIN disk => disk[im] = stats
              /\ disk' = (im :> stats) @@ disk
              /\ images' = Append(images, get_stats(stats).label_area)
    /\ UNCHANGED <<pc, csv, df, labels, imageids, id_, best_r, bounds, bests,
                   train_x, train_y, err, x_train, y_train, call, ret>>

\* precompute_stats returns (line 79); get_model lines 176-177 and the
\* initialisations of brute_force_bounds (lines 97-100)
PrecomputeReturn ==
    /\ pc = "precompute_stats"
    /\ Len(images) = Len(df)
    /\ labels' = [i \in 1..Len(df) |-> df[i].prop_count]
    /\ imageids' = [i \in 1..Len(df) |-> df[i].ImageId]
    /\ pc' = "brute_force_bounds"
    /\ UNCHANGED <<csv, df, disk, images, id_, best_r, bounds, bests,
                   train_x, train_y, err, x_train, y_train, call, ret>>

\* brute_force_bounds, one iteration of the loop of lines 102-143
BruteForceStep ==
    /\ pc = "brute_force_bounds"
    /\ id_ < Len(images)
    /\ LET im == images[id_ + 1]
           lab == labels[id_ + 1]
           imid == imageids[id_ + 1]
       IN  \E scan \in {ScanImage(im, lab, best_r)},
              wide \in {get_count(disk[imid], WideL, WideR, TRUE)} :
           /\ best_r' = scan.best_r
           /\ IF scan.best_r = <<>>
              THEN \* line 120 reads best_r, which no assignment has bound
                   /\ err' = "UnboundLocalError"
                   /\ pc' = "failed"
                   /\ UNCHANGED <<id_, bounds, bests, train_x, train_y>>
              ELSE /\ bounds' = Append(bounds, <<SearchL, scan.best_r[1]>>)
                   /\ bests' = Append(bests, scan.min_error)
                   /\ train_y' = Append(train_y, <<SearchL, scan.best_r[1]>>)
                   /\ IF wide.raised # ""
                      THEN \* line 124 is outside the try of lines 108-111
                           /\ err' = wide.raised
                           /\ pc' = "failed"
                           /\ UNCHANGED <<id_, train_x>>
                      ELSE /\ train_x' =
                                Append(train_x, BuildFeatures(wide.stats[1]))
                           /\ id_' = id_ + 1
                           /\ UNCHANGED <<pc, err>>
    /\ UNCHANGED <<csv, df, disk, images, labels, imageids, x_train, y_train,
                   call, ret>>

\* brute_force_bounds returns (line 149); get_model lines 182-191
DeleteTestRows ==
    /\ pc = "brute_force_bounds"
    /\ id_ = Len(images)
    /\ LET test_indices == TestIndices([i \in 1..Len(df) |-> df[i].ImageId],
                                       test_ids)
       IN  /\ x_train' = np_delete(train_x, test_indices)
           /\ y_train' = np_delete(train_y, test_indices)
    /\ pc' = "fit"
    /\ UNCHANGED <<csv, df, disk, images, labels, imageids, id_, best_r,
                   bounds, bests, train_x, train_y, err, call, ret>>

Next ==
    \/ ReadDataFrame
    \/ PrecomputeStep
    \/ PrecomputeReturn
    \/ BruteForceStep
    \/ DeleteTestRows

Spec == Init /\ [][Next]_vars

NextCount == GetCount

SpecCount == InitCount /\ [][NextCount]_vars

(***************************************************************************)
(* Properties.                                                             *)
(***************************************************************************)
\* the images whose grid scan has ended: those with a row in train_y, and
\* the one whose scan left best_r unbound
Scanned ==
    (1..Len(train_y))
      \cup (IF pc = "failed" /\ err = "UnboundLocalError" THEN {id_ + 1} ELSE {})

\* the candidates {40, 50, ..., 990}
GridValues == {r \in 40..990 : r % 10 = 0}

\* the scan of image i on its own: in a call that starts with this image
OwnScan(i) == ScanImage(images[i], labels[i], <<>>)

\* the relative error of candidate r for image i, an empty window counting
\* as estimate 0
ErrorAt(i, r) == RelError(FoundOrZero(images[i], SearchL, r), labels[i])

\* C1: get_count(V, l, r, res=False) with l < r raises the invalid-range
\* error exactly when no element of V lies in (l, r], the empty V included.
C1_RaisesIffWindowEmpty ==
    pc = "returned" =>
        LET c == call[1]
            window == {i \in 1..Len(c.im) : c.l < c.im[i] /\ c.im[i] <= c.r}
        IN  (ret[1].raised = "ValueError") <=> (window = {})

\* C2: no empty area window aborts brute_force_bounds: a ValueError of any
\* get_count call is recovered, and the function returns one training
\* example per image.
C2_EmptyWindowNeverPropagates ==
    /\ ~(pc = "failed" /\ err = "ValueError")
    /\ pc = "fit" => Len(train_x) = Len(images) /\ Len(train_y) = Len(images)

\* C3: for every image with a strictly positive true count the search
\* returns l = 30 and an r of the grid that this image's own scan chose,
\* and records a minimum relative error >= 0.
C3_ReturnsGridBoundOfOwnScan ==
    \A i \in Scanned :
        labels[i] > 0 =>
            /\ i <= Len(bounds)
            /\ bounds[i][1] = 30
            /\ bounds[i][2] \in GridValues
            /\ OwnScan(i).best_r = <<bounds[i][2]>>
            /\ bests[i].den > 0 /\ bests[i].num >= 0

\* C4: the rows handed to fit are, in table order, exactly the rows of the
\* table that have a label and whose identifier is neither dropped nor held
\* out; each keeps the features of its own image and the bounds stored for
\* its own row.
C4_TrainingRowsExcludeTestAndDropped ==
    pc = "fit" =>
        LET keep == SelectSeq(csv, LAMBDA row :
                        ~row.isna /\ row.ImageId \notin drop_images
                                  /\ row.ImageId \notin test_ids)
            pos(k) == CHOOSE j \in 1..Len(df) :
                        /\ df[j].ImageId \notin test_ids
                        /\ Cardinality({m \in 1..j :
                                          df[m].ImageId \notin test_ids}) = k
        IN  /\ Len(x_train) = Len(keep)
            /\ Len(y_train) = Len(keep)
            /\ \A k \in 1..Len(keep) :
                  /\ df[pos(k)] = keep[k]
                  /\ x_train[k] = BuildFeatures(disk[keep[k].ImageId])
                  /\ x_train[k] = train_x[pos(k)]
                  /\ y_train[k] = train_y[pos(k)]

\* C4 witness: two labelled rows survive the filter, the first is held out
\* and removed by position, and the row that stays is the second image's.
C4_Witness ==
    /\ pc = "fit"
    /\ Len(df) = 2
    /\ df[1].ImageId \in test_ids
    /\ df[2].ImageId \notin test_ids
    /\ train_x[1] # train_x[2]
    /\ x_train = <<train_x[2]>>
    /\ y_train = <<train_y[2]>>

\* C5: every feature vector has 99 entries, each in [0, 1]; they sum to 1
\* when some row of the statistics has area < 1000, and are all 0 when none
\* has.
C5_HistogramSumsToOne ==
    \A i \in 1..Len(train_x) :
        LET f == train_x[i]
            stats == disk[imageids[i]]
            small == {j \in 1..Len(stats) : stats[j] < 1000}
        IN  /\ Len(f) = 99
            /\ \A k \in 1..Len(f) :
                  f[k].den > 0 /\ 0 <= f[k].num /\ f[k].num <= f[k].den
            /\ small # {} =>
                  SumSeq([k \in 1..Len(f) |-> f[k].num]) = f[1].den
            /\ small = {} => \A k \in 1..Len(f) : f[k].num = 0

\* the scanned images that are scenario 1: areas [50, 55, 52, 300], count 5
Scenario1 ==
    {i \in 1..Len(bounds) : images[i] = <<50, 55, 52, 300>> /\ labels[i] = 5}

\* C6 as stated: for areas [50, 55, 52, 300] and true count 5 the search
\* returns l = 30 and r = 60 give or take one grid step, with estimate 9 at
\* the returned r.
C6_Original ==
    \A i \in Scenario1 :
        /\ bounds[i][1] = 30
        /\ bounds[i][2] \in {50, 60, 70}
        /\ FoundOrZero(images[i], 30, bounds[i][2]) = 9

\* C6 as amended: for areas [50, 55, 52, 300] and true count 5 the search
\* returns l = 30 and r = 300, whose window holds all four components
\* (estimate 0+0+0+3 = 3, relative error 2/5); the windows (30, 50] and
\* (30, 60] give estimate 1+1+1+6 = 9 (relative error 4/5).
C6_Amended ==
    \A i \in Scenario1 :
        /\ bounds[i] = <<30, 300>>
        /\ bests[i] = [num |-> 2, den |-> 5]
        /\ FoundOrZero(images[i], 30, 300) = 3
        /\ FoundOrZero(images[i], 30, 50) = 9
        /\ FoundOrZero(images[i], 30, 60) = 9
        /\ ErrorAt(i, 60) = [num |-> 4, den |-> 5]

\* C6 witness: scenario 1 has been searched.
C6_Witness == Scenario1 # {}

\* the scanned images with an empty Area Vector and a positive true count
EmptyImages == {i \in Scanned : images[i] = <<>> /\ labels[i] > 0}

\* C7: for an empty Area Vector and a strictly positive true count the
\* search ends without failing, every candidate's estimate is 0, and it
\* returns r = 40 with minimum relative error exactly 1.
C7_EmptyAreaVector ==
    \A i \in EmptyImages :
        /\ i <= Len(bounds)
        /\ \A r \in GridValues :
              get_count(images[i], 30, r, FALSE) =
                  [raised |-> "", found |-> 0, stats |-> <<>>]
        /\ bounds[i] = <<30, 40>>
        /\ bests[i].den > 0 /\ bests[i].num = bests[i].den

\* C7 witness: an empty Area Vector searched right after an image whose
\* best r is not 40.
C7_Witness ==
    \E i \in EmptyImages :
        i > 1 /\ i <= Len(bounds) /\ bounds[i - 1][2] # 40

\* C8: for every image with a strictly positive true count the returned r
\* minimises the relative error over the grid and is the smallest grid
\* value that attains the minimum.
C8_ReturnsSmallestMinimiser ==
    \A i \in Scanned :
        labels[i] > 0 =>
            /\ i <= Len(bounds)
            /\ \A r \in GridValues :
                  /\ ~FloatLess(ErrorAt(i, r), ErrorAt(i, bounds[i][2]))
                  /\ ErrorAt(i, r) = ErrorAt(i, bounds[i][2])
                        => bounds[i][2] <= r

\* areas the background row may have
BackgroundAreas == {0, 500, 5000}

\* C9: neither the count of the wide-range call nor any bin of the feature
\* vector depends on row 0 of the statistics.
C9_BackgroundExcluded ==
    \A i \in 1..Len(train_x) :
        \A b \in BackgroundAreas :
            LET stats == disk[imageids[i]]
                other == <<b>> \o Tail(stats)
            IN  /\ get_count(other, WideL, WideR, TRUE).found
                     = get_count(stats, WideL, WideR, TRUE).found
                /\ BuildFeatures(other) = train_x[i]

\* C10: the bounds and features stored for an image are those of a call
\* that processes this image alone, whatever precedes it in the batch.
C10_ImageResultIndependent ==
    /\ \A i \in 1..Len(train_y) :
          /\ OwnScan(i).best_r # <<>>
          /\ train_y[i] = <<SearchL, OwnScan(i).best_r[1]>>
    /\ \A i \in 1..Len(train_x) :
          train_x[i] = BuildFeatures(disk[imageids[i]])

====
